---- MODULE Spec2Model ----
(***************************************************************************)
(* ESET Quarantine Recovery: the command-line tool                         *)
(* (eset_unquarantine_cli.py).  The model follows main(): the decrypt      *)
(* stage, the OCR stage, propose_names, the confirm/edit/cancel loop and   *)
(* the loop that writes the named copies.                                  *)
(* Three parts stand beside it: decrypt_eset_bytes byte by byte,           *)
(* ocr_candidates image by image, and the extraction threads of the GUI    *)
(* (eset_unquarantine_gui.py, run_extract).                                *)
(*                                                                         *)
(* Sizes are byte counts.  within_tol divides two Python ints and compares *)
(* the float quotient with the literals 0.02 and 0.03; for sizes below     *)
(* 2^50 the quotients d/T that differ from 1/50 (3/100) differ from it by  *)
(* at least 1/(100*T), far more than one ulp, and the quotient that equals *)
(* it rounds to the literal itself, so the comparison is the exact         *)
(* rational one, written here with integers.                               *)
(***************************************************************************)
EXTENDS Integers, Sequences, FiniteSets, TLC

VARIABLES
    pc,         \* position in main() (or in the harness of a pure function)
    sz, target, \* arguments of within_tol
    tolres,     \* its result
    nqfs,       \* scan_nqf's result: the containers, in path order
    ocr,        \* what ocr_candidates returns for the screenshots folder
    items,      \* main: items
    cand_list,  \* main: cand_list
    proposals,  \* main: proposals, a dict idx -> [name, label]
    fs,         \* the files under the output root: path -> file or NoFile
    i,          \* position of the running for loop (1-based)
    choice,     \* main: choice, the last command read
    idx,        \* main: idx, the last edit index parsed
    inp,        \* the last line read from standard input (EOF: end of input)
    msg,        \* the last message printed by the review loop
    made,       \* main: made
    run,        \* which run of the copy loop this is
    fs1,        \* the files as the first run of the copy loop left them
    rows,       \* GUI: App.rows, the table of containers with their OCR names
    threads,    \* GUI: the extraction threads started, each with its position
    data, dec,  \* decrypt_eset_bytes: the input bytes and the output so far
    frags,      \* ocr_candidates: the (name, size) pairs found in each image
    gathered,   \* ocr_candidates: cands, the pairs gathered so far
    uniq        \* ocr_candidates: uniq

\* the variables outside main()
others == <<rows, threads, data, dec, frags, gathered, uniq>>

vars == <<pc, sz, target, tolres, nqfs, ocr, items, cand_list, proposals, fs,
          i, choice, idx, inp, msg, made, run, fs1, others>>

-----------------------------------------------------------------------------
(* Bounds of the model *)

MaxItems == 2
MaxCands == 3

-----------------------------------------------------------------------------
(* Size helpers *)

MiB == 1048576

Abs(x) == IF x < 0 THEN -x ELSE x

\* within_tol(sz, target): rel = abs(sz - target) / target;
\* rel <= (0.02 if target >= 1024*1024 else 0.03)
within_tol(s, t) ==
    IF t <= 0 THEN FALSE
    ELSE IF t >= MiB THEN 100 * Abs(s - t) <= 2 * t
         ELSE 100 * Abs(s - t) <= 3 * t

-----------------------------------------------------------------------------
(* propose_names *)

MISSING == "(missing)"
DUPLICATE == "(possible duplicate)"

Missing == [name |-> MISSING, label |-> MISSING]

RECURSIVE SizeOrder(_)
\* the keys of by_size in insertion order: each size at its first occurrence
SizeOrder(cands) ==
    IF cands = <<>> THEN <<>>
    ELSE LET rest == SizeOrder(SubSeq(cands, 1, Len(cands) - 1))
             s == cands[Len(cands)][2]
         IN IF \E k \in 1..Len(rest) : rest[k] = s THEN rest ELSE Append(rest, s)

RECURSIVE NamesOfSize(_, _)
\* by_size[s]: the names of the candidates of size s, in list order
NamesOfSize(cands, s) ==
    IF cands = <<>> THEN <<>>
    ELSE LET rest == NamesOfSize(Tail(cands), s)
         IN IF Head(cands)[2] = s THEN <<Head(cands)[1]>> \o rest ELSE rest

RECURSIVE Collect(_, _, _)
\* matched_names before the dedup: for each size of by_size within tolerance,
\* extend by its names
Collect(order, cands, out_size) ==
    IF order = <<>> THEN <<>>
    ELSE LET rest == Collect(Tail(order), cands, out_size)
         IN IF within_tol(out_size, Head(order))
            THEN NamesOfSize(cands, Head(order)) \o rest
            ELSE rest

\* dedup left out: every occurrence kept
DedupNoOp(names) == names

RECURSIVE Dedup(_)
\* list(dict.fromkeys(names)): unique, first occurrences, order preserved
Dedup(names) ==
    IF names = <<>> THEN <<>>
    ELSE LET rest == Dedup(SubSeq(names, 1, Len(names) - 1))
             n == names[Len(names)]
         IN IF \E k \in 1..Len(rest) : rest[k] = n THEN rest ELSE Append(rest, n)

RECURSIVE SizeOrderSorted(_)
\* the sizes in ascending order instead of insertion order
SizeOrderSorted(cands) ==
    LET S == {cands[k][2] : k \in 1..Len(cands)}
    IN IF S = {} THEN <<>>
       ELSE LET m == CHOOSE x \in S : \A y \in S : x <= y
            IN <<m>> \o SizeOrderSorted(SelectSeq(cands, LAMBDA c : c[2] # m))

BySizeKeys(cands) == SizeOrder(cands)

matched_names(it, cands) == Dedup(Collect(BySizeKeys(cands), cands, it.out_size))

ProposalFor(it, cands) ==
    LET m == matched_names(it, cands)
    IN IF m = <<>> THEN Missing
       ELSE [name |-> m[1], label |-> IF Len(m) > 1 THEN DUPLICATE ELSE ""]

RECURSIVE ProposeTaking(_, _, _)
\* a matcher that marks the candidate it gave to an item as taken
ProposeTaking(its, cands, taken) ==
    IF its = <<>> THEN <<>>
    ELSE LET W == {k \in 1..Len(cands) \ taken : within_tol(Head(its).out_size, cands[k][2])}
             f == CHOOSE k \in W : \A m \in W : k <= m
         IN IF W = {}
            THEN <<Missing>> \o ProposeTaking(Tail(its), cands, taken)
            ELSE <<[name |-> cands[f][1],
                    label |-> IF Cardinality({cands[k][1] : k \in W}) > 1
                              THEN DUPLICATE ELSE ""]>>
                 \o ProposeTaking(Tail(its), cands, taken \cup {f})

\* propose_names with candidates consumed by the items before
propose_names_taking(out_items, cands) == ProposeTaking(out_items, cands, {})

propose_names(out_items, cands) ==
    [k \in {out_items[j].idx : j \in 1..Len(out_items)} |->
        ProposalFor(CHOOSE it \in {out_items[j] : j \in 1..Len(out_items)} : it.idx = k,
                    cands)]

-----------------------------------------------------------------------------
(* Standard input *)

\* A line is the sequence of its tokens: " " is a run of white space, any
\* other token a word; the lines of the model hold at most one word.
\* EOF is the end-of-input condition (input() raises EOFError).
EOF == <<"^D">>

\* str.strip() of a line with at most one word
Strip(line) ==
    LET w == SelectSeq(line, LAMBDA t : t # " ")
    IN IF w = <<>> THEN "" ELSE w[1]

\* str.lower() on the words of the model
Lower(s) ==
    CASE s = "Yes" -> "yes"
      [] s = "Q" -> "q"
      [] s = "EDIT" -> "edit"
      [] s = "A.EXE" -> "a.exe"
      [] OTHER -> s

\* int(): the words it accepts, with their values; it raises on the others
IntWords == [w \in {"0", "1", "2", "3"} |->
                CASE w = "0" -> 0 [] w = "1" -> 1 [] w = "2" -> 2 [] w = "3" -> 3]

CmdLines == { <<"y">>, <<"Yes", " ">>, <<"Q">>, <<"cancel">>, <<" ", "EDIT">>,
              <<"confirm">>, EOF }

IdxLines == { <<"1">>, <<" ", "2", " ">>, <<"3">>, <<"0">>, <<"x">>, EOF }

Names == {"a.exe", "b.zip"}

NameLines == { <<"a.exe">>, <<" ", "b.zip">>, <<" ">>, <<MISSING>>, EOF }

-----------------------------------------------------------------------------
(* Files under the output root *)

NoFile == [src |-> 0 - 1, size |-> 0]

\* f"{base}.00000000_ESET.out": one such name per folder, the folder being
\* named after the stem of base
OUT == ".NQF.00000000_ESET.out"

\* the copy of the container that the GUI keeps next to the .out file
NQF == ".NQF"

Folders == {"h1", "h2"}
Paths == Folders \X (Names \cup {OUT, NQF})

\* a file that was in the output folder before the run
Old == [src |-> 0, size |-> 7]

\* scan_nqf: every container under the quarantine root, in sorted path order
AllNqf == << [dir |-> "", stem |-> "h1"],
             [dir |-> "", stem |-> "h2"],
             [dir |-> "s", stem |-> "h1"] >>

RECURSIVE Pick(_, _)
\* the containers of AllNqf whose positions are in S, in path order
Pick(S, k) ==
    IF k > Len(AllNqf) THEN <<>>
    ELSE (IF k \in S THEN <<AllNqf[k]>> ELSE <<>>) \o Pick(S, k + 1)

-----------------------------------------------------------------------------
(* main() *)

NqfLens == {48550, 2000}

\* the candidate lists of the review sessions: none, one name within
\* tolerance of 48550, two names within tolerance of it
OcrLists == { <<>>,
              << <<"a.exe", 48640>> >>,
              << <<"a.exe", 48640>>, <<"b.zip", 48640>> >> }

\* the lists of at most n candidates over the given names and sizes
CandLists(names, sizes, n) == UNION {[1..k -> names \X sizes] : k \in 0..n}

\* an assignment that reaches every key of the dict
DictSetAll(d, k, v) == [j \in DOMAIN d \cup {k} |-> v]

\* a dict assignment d[k] = v: the key is added when it is not there
DictSet(d, k, v) == [j \in DOMAIN d \cup {k} |-> IF j = k THEN v ELSE d[j]]

\* proposals.get(idx, {"name":"(missing)", "label":"(missing)"})
DictGet(d, k) == IF k \in DOMAIN d THEN d[k] ELSE Missing

NoTol == /\ sz = 0 /\ target = 0 /\ tolres = "unset"

\* nothing of the GUI, of decrypt_eset_bytes or of ocr_candidates is running
NoOthers ==
    /\ rows = <<>>
    /\ threads = <<>>
    /\ data = <<>>
    /\ dec = <<>>
    /\ frags = <<>>
    /\ gathered = <<>>
    /\ uniq = <<>>

\* the scans of at most MaxItems containers with payload lengths in lens;
\* readable: whether nqf_path.read_bytes() succeeds on the container
Scans(lens) ==
    UNION {{[k \in 1..Cardinality(S) |->
                LET j == CHOOSE j \in S : Cardinality({m \in S : m < j}) = k - 1
                IN [dir |-> AllNqf[j].dir, stem |-> AllNqf[j].stem,
                    len |-> f[j][1], readable |-> f[j][2]]]
            : f \in [S -> lens \X BOOLEAN]}
           : S \in {T \in SUBSET (1..Len(AllNqf)) : Cardinality(T) <= MaxItems}}

\* main() before the decrypt stage, no review input read yet
Start ==
    /\ pc = "decrypt"
    /\ NoTol
    /\ NoOthers
    /\ items = <<>>
    /\ cand_list = <<>>
    /\ proposals = <<>>
    /\ i = 1
    /\ choice = ""
    /\ idx = 0
    /\ inp = <<>>
    /\ msg = ""
    /\ made = 0
    /\ run = 1
    /\ fs1 = [p \in Paths |-> NoFile]

Init ==
    /\ Start
    /\ nqfs \in Scans(NqfLens)
    /\ ocr \in OcrLists
    /\ fs \in {[p \in Paths |-> NoFile],
               [p \in Paths |-> IF p = <<"h1", "a.exe">> THEN Old ELSE NoFile]}

\* lines 265-267: nothing was found
NoContainers ==
    /\ pc = "decrypt"
    /\ nqfs = <<>>
    /\ pc' = "exit"
    /\ UNCHANGED <<sz, target, tolres, nqfs, ocr, items, cand_list, proposals, fs,
                   i, choice, idx, inp, msg, made, run, fs1>>
    /\ UNCHANGED others

\* decrypt_one: the payload is as long as the container and always overwrites
\* the .out file; the size is read back from the file written
decrypt_one(k, files) ==
    LET out_path == <<nqfs[k].stem, OUT>>
        written == [files EXCEPT ![out_path] = [src |-> k, size |-> nqfs[k].len]]
    IN [fs |-> written,
        item |-> [idx |-> k, nqf |-> [dir |-> nqfs[k].dir, stem |-> nqfs[k].stem],
                  folder |-> nqfs[k].stem, out_path |-> out_path,
                  out_size |-> written[out_path].size]]

\* line 181 raises on a container that cannot be read; lines 271-279 have no
\* handler, so the exception leaves main() with a traceback
DecryptFail ==
    /\ pc = "decrypt"
    /\ i <= Len(nqfs)
    /\ ~nqfs[i].readable
    /\ pc' = "failed"
    /\ UNCHANGED <<sz, target, tolres, nqfs, ocr, items, cand_list, proposals, fs,
                   i, choice, idx, inp, msg, made, run, fs1>>
    /\ UNCHANGED others

\* lines 271-279: one round of the decrypt loop
DecryptOne ==
    /\ pc = "decrypt"
    /\ i <= Len(nqfs)
    /\ nqfs[i].readable
    /\ LET r == decrypt_one(i, fs)
       IN /\ fs' = r.fs
          /\ items' = Append(items, r.item)
    /\ IF i = Len(nqfs) THEN pc' = "ocr" /\ i' = 1 ELSE pc' = pc /\ i' = i + 1
    /\ UNCHANGED <<sz, target, tolres, nqfs, ocr, cand_list, proposals,
                   choice, idx, inp, msg, made, run, fs1>>
    /\ UNCHANGED others

\* lines 283-288
OcrStage ==
    /\ pc = "ocr"
    /\ cand_list' = ocr
    /\ pc' = "propose"
    /\ UNCHANGED <<sz, target, tolres, nqfs, ocr, items, proposals, fs,
                   i, choice, idx, inp, msg, made, run, fs1>>
    /\ UNCHANGED others

\* line 290
ProposeStage ==
    /\ pc = "propose"
    /\ proposals' = propose_names(items, cand_list)
    /\ pc' = "prompt"
    /\ UNCHANGED <<sz, target, tolres, nqfs, ocr, items, cand_list, fs,
                   i, choice, idx, inp, msg, made, run, fs1>>
    /\ UNCHANGED others

-----------------------------------------------------------------------------
(* The review loop, lines 297-329 *)

\* lines 298-301: end of input reads as "c"
\* a reading that takes every line that is no confirm and no edit for a cancel
ChoiceOrCancel(line) ==
    IF line # EOF /\ Lower(Strip(line)) \in {"y", "yes", "e", "edit"}
    THEN Lower(Strip(line)) ELSE "c"

ChoiceOf(line) == IF line = EOF THEN "c" ELSE Lower(Strip(line))

ConfirmWords == {"y", "yes"}
CancelWords == {"c", "q", "cancel"}
EditWords == {"e", "edit"}

\* a cancel that leaves the loop as a confirm does
CancelFallsThrough == "copy"

\* line 306, sys.exit(0): where a cancel leads
CancelTarget == "cancelled"

\* line 302-303: break
Confirm ==
    /\ pc = "prompt"
    /\ \E line \in CmdLines :
         /\ ChoiceOf(line) \in ConfirmWords
         /\ inp' = line
         /\ choice' = ChoiceOf(line)
    /\ pc' = "copy"
    /\ i' = 1
    /\ made' = 0
    /\ UNCHANGED <<sz, target, tolres, nqfs, ocr, items, cand_list, proposals, fs,
                   idx, msg, run, fs1>>
    /\ UNCHANGED others

\* lines 304-306
Cancel ==
    /\ pc = "prompt"
    /\ \E line \in CmdLines :
         /\ ChoiceOf(line) \in CancelWords
         /\ inp' = line
         /\ choice' = ChoiceOf(line)
    /\ msg' = "[!] Aborting."
    /\ pc' = CancelTarget
    /\ UNCHANGED <<sz, target, tolres, nqfs, ocr, items, cand_list, proposals, fs,
                   i, idx, made, run, fs1>>
    /\ UNCHANGED others

\* line 307
EditCmd ==
    /\ pc = "prompt"
    /\ \E line \in CmdLines :
         /\ ChoiceOf(line) \in EditWords
         /\ inp' = line
         /\ choice' = ChoiceOf(line)
    /\ pc' = "ask_index"
    /\ UNCHANGED <<sz, target, tolres, nqfs, ocr, items, cand_list, proposals, fs,
                   i, idx, msg, made, run, fs1>>
    /\ UNCHANGED others

\* lines 328-329: anything else prints the prompt again
OtherCmd ==
    /\ pc = "prompt"
    /\ \E line \in CmdLines :
         /\ ChoiceOf(line) \notin ConfirmWords \cup CancelWords \cup EditWords
         /\ inp' = line
         /\ choice' = ChoiceOf(line)
    /\ pc' = "prompt"
    /\ UNCHANGED <<sz, target, tolres, nqfs, ocr, items, cand_list, proposals, fs,
                   i, idx, msg, made, run, fs1>>
    /\ UNCHANGED others

\* a parse that falls back to the first entry when the line is no integer
ParseIndexDefault(line) ==
    IF line # EOF /\ Strip(line) \in DOMAIN IntWords
    THEN [ok |-> TRUE, val |-> IntWords[Strip(line)]]
    ELSE [ok |-> TRUE, val |-> 1]

\* line 310, int(input(...).strip()): any exception, EOFError included, is
\* caught by line 311
ParseIndex(line) ==
    IF line # EOF /\ Strip(line) \in DOMAIN IntWords
    THEN [ok |-> TRUE, val |-> IntWords[Strip(line)]]
    ELSE [ok |-> FALSE, val |-> 0]

\* no membership test
IndexAny(n, its) == TRUE

\* line 315: any(it["idx"] == idx for it in items)
IndexInList(n, its) == \E k \in 1..Len(its) : its[k].idx = n

\* lines 309-314
BadIndex ==
    /\ pc = "ask_index"
    /\ \E line \in IdxLines :
         /\ ~ParseIndex(line).ok
         /\ inp' = line
    /\ msg' = "[!] Invalid index."
    /\ pc' = "prompt"
    /\ UNCHANGED <<sz, target, tolres, nqfs, ocr, items, cand_list, proposals, fs,
                   i, choice, idx, made, run, fs1>>
    /\ UNCHANGED others

\* lines 315-318
IndexNotInList ==
    /\ pc = "ask_index"
    /\ \E line \in IdxLines :
         /\ ParseIndex(line).ok
         /\ ~IndexInList(ParseIndex(line).val, items)
         /\ inp' = line
         /\ idx' = ParseIndex(line).val
    /\ msg' = "[!] Index not in list."
    /\ pc' = "prompt"
    /\ UNCHANGED <<sz, target, tolres, nqfs, ocr, items, cand_list, proposals, fs,
                   i, choice, made, run, fs1>>
    /\ UNCHANGED others

\* lines 310, 315: the index is accepted and the name is asked for
IndexOk ==
    /\ pc = "ask_index"
    /\ \E line \in IdxLines :
         /\ ParseIndex(line).ok
         /\ IndexInList(ParseIndex(line).val, items)
         /\ inp' = line
         /\ idx' = ParseIndex(line).val
    /\ pc' = "ask_name"
    /\ UNCHANGED <<sz, target, tolres, nqfs, ocr, items, cand_list, proposals, fs,
                   i, choice, msg, made, run, fs1>>
    /\ UNCHANGED others

\* an edit that does not test for a blank name
EditedNoBlank(newname) == [name |-> newname, label |-> ""]

\* lines 320-323: the proposal an edit writes
Edited(newname) ==
    IF newname = "" THEN Missing ELSE [name |-> newname, label |-> ""]

\* lines 319-327
EditName ==
    /\ pc = "ask_name"
    /\ \E line \in NameLines :
         /\ line # EOF
         /\ inp' = line
         /\ proposals' = DictSet(proposals, idx, Edited(Strip(line)))
    /\ pc' = "prompt"
    /\ UNCHANGED <<sz, target, tolres, nqfs, ocr, items, cand_list, fs,
                   i, choice, idx, msg, made, run, fs1>>
    /\ UNCHANGED others

\* line 319 at end of input: the EOFError is caught nowhere and ends the
\* process with a traceback
NameEof ==
    /\ pc = "ask_name"
    /\ inp' = EOF
    /\ pc' = "crashed"
    /\ UNCHANGED <<sz, target, tolres, nqfs, ocr, items, cand_list, proposals, fs,
                   i, choice, idx, msg, made, run, fs1>>
    /\ UNCHANGED others

-----------------------------------------------------------------------------
(* The named copies, lines 331-344 *)

\* no test of the target
ShouldCopyAlways(files, tgt) == TRUE

\* line 340: not target.exists()
ShouldCopy(files, tgt) == files[tgt] = NoFile

\* a copy that writes nothing
CopyNothing(files, src, tgt) == files

\* line 341, shutil.copy2(out_path, target)
Copy2(files, src, tgt) == [files EXCEPT ![tgt] = files[src]]

\* lines 333-342: one round of the loop
CopyItem ==
    /\ pc = "copy"
    /\ i <= Len(items)
    /\ LET it == items[i]
           nm == DictGet(proposals, it.idx).name
           tgt == <<it.folder, nm>>
       IN IF nm # "" /\ nm # MISSING /\ ShouldCopy(fs, tgt)
          THEN /\ fs' = Copy2(fs, it.out_path, tgt)
               /\ made' = made + 1
          ELSE UNCHANGED <<fs, made>>
    /\ i' = i + 1
    /\ UNCHANGED <<pc, sz, target, tolres, nqfs, ocr, items, cand_list, proposals,
                   choice, idx, inp, msg, run, fs1>>
    /\ UNCHANGED others

\* line 344
Done ==
    /\ pc = "copy"
    /\ i > Len(items)
    /\ msg' = "[v] Done."
    /\ pc' = "done"
    /\ UNCHANGED <<sz, target, tolres, nqfs, ocr, items, cand_list, proposals, fs,
                   i, choice, idx, inp, made, run, fs1>>
    /\ UNCHANGED others

\* lines 332-342 once more, on the same items and proposals
Rerun ==
    /\ pc = "done"
    /\ run = 1
    /\ run' = 2
    /\ fs1' = fs
    /\ i' = 1
    /\ made' = 0
    /\ pc' = "copy"
    /\ UNCHANGED <<sz, target, tolres, nqfs, ocr, items, cand_list, proposals, fs,
                   choice, idx, inp, msg>>
    /\ UNCHANGED others

Next ==
    \/ NoContainers
    \/ DecryptFail
    \/ DecryptOne
    \/ OcrStage
    \/ ProposeStage
    \/ Confirm
    \/ Cancel
    \/ EditCmd
    \/ OtherCmd
    \/ BadIndex
    \/ IndexNotInList
    \/ IndexOk
    \/ EditName
    \/ NameEof
    \/ CopyItem
    \/ Done
    \/ Rerun

Spec == Init /\ [][Next]_vars

-----------------------------------------------------------------------------
(* within_tol applied to one pair of sizes *)

TolSizes == {970, 1000, 1030, 1031, 1040000, 1048575, 1048576, 1069547, 1069548,
             1069572, 1069573, 1080032, 1080033}
TolTargets == {0, 1000, 1020000, 1048575, 1048576, 1048600, 1065000}

InitTol ==
    /\ pc = "tol"
    /\ sz \in TolSizes
    /\ target \in TolTargets
    /\ tolres = "unset"
    /\ NoOthers
    /\ nqfs = <<>>
    /\ ocr = <<>>
    /\ items = <<>>
    /\ cand_list = <<>>
    /\ proposals = <<>>
    /\ fs = [p \in Paths |-> NoFile]
    /\ i = 1
    /\ choice = ""
    /\ idx = 0
    /\ inp = <<>>
    /\ msg = ""
    /\ made = 0
    /\ run = 1
    /\ fs1 = [p \in Paths |-> NoFile]

\* line 203: the call within_tol(it["out_size"], cand_sz)
ApplyTol ==
    /\ pc = "tol"
    /\ tolres' = IF within_tol(sz, target) THEN "match" ELSE "no match"
    /\ pc' = "tol_done"
    /\ UNCHANGED <<sz, target, nqfs, ocr, items, cand_list, proposals, fs,
                   i, choice, idx, inp, msg, made, run, fs1>>
    /\ UNCHANGED others

NextTol == ApplyTol

SpecTol == InitTol /\ [][NextTol]_vars

-----------------------------------------------------------------------------
(* The GUI (eset_unquarantine_gui.py): extraction threads *)

MaxClicks == 2

GuiLens == {2000}

\* scan_quarantine lists the quarantine folder itself (iterdir), so the rows
\* are the containers of the root; every row is ticked for extraction and
\* carries the name typed or matched for it ("" when there is none)
GuiRows ==
    UNION {{[k \in 1..Len(s) |->
                [idx |-> k, stem |-> s[k].stem, len |-> s[k].len,
                 readable |-> s[k].readable, ocr_name |-> n[k]]]
            : n \in [1..Len(s) -> Names \cup {""}]}
           : s \in {c \in Scans(GuiLens) : \A k \in 1..Len(c) : c[k].dir = ""}}

InitGui ==
    /\ pc = "gui"
    /\ NoTol
    /\ rows \in GuiRows
    /\ threads = <<>>
    /\ data = <<>> /\ dec = <<>>
    /\ frags = <<>> /\ gathered = <<>> /\ uniq = <<>>
    /\ nqfs = <<>>
    /\ ocr = <<>>
    /\ items = <<>>
    /\ cand_list = <<>>
    /\ proposals = <<>>
    /\ fs = [p \in Paths |-> NoFile]
    /\ i = 1
    /\ choice = ""
    /\ idx = 0
    /\ inp = <<>>
    /\ msg = ""
    /\ made = 0
    /\ run = 1
    /\ fs1 = [p \in Paths |-> NoFile]

\* what a step of an extraction thread leaves alone
GuiFrame ==
    /\ UNCHANGED <<pc, sz, target, tolres, nqfs, ocr, items, cand_list,
                   proposals, i, choice, idx, inp, msg, made, run, fs1>>
    /\ UNCHANGED <<rows, data, dec, frags, gathered, uniq>>

\* hash_folder / r.nqf_path.name, the .out file and hash_folder / r.ocr_name
DstNqf(r) == <<r.stem, NQF>>
OutPath(r) == <<r.stem, OUT>>
GuessPath(r) == <<r.stem, r.ocr_name>>

\* "for r in chosen": the thread goes on to its next row, or ends
NextRow(t) ==
    IF threads[t].k < Len(rows)
    THEN [threads EXCEPT ![t] = [pc |-> "nqf_check", k |-> threads[t].k + 1]]
    ELSE [threads EXCEPT ![t] = [pc |-> "done", k |-> threads[t].k]]

At(t, newpc) == [threads EXCEPT ![t].pc = newpc]

\* the "Extract" button: a new thread on every click, which gathers the
\* ticked rows and ends at once when there is none
start_extract_thread ==
    /\ pc = "gui"
    /\ Len(threads) < MaxClicks
    /\ threads' = Append(threads,
                     [pc |-> IF rows = <<>> THEN "done" ELSE "nqf_check", k |-> 1])
    /\ UNCHANGED fs
    /\ GuiFrame

\* line 536: is the copy of the container there already?
GuiNqfCheck(t) ==
    /\ threads[t].pc = "nqf_check"
    /\ threads' = At(t, IF fs[DstNqf(rows[threads[t].k])] = NoFile
                        THEN "nqf_copy" ELSE "extract")
    /\ UNCHANGED fs
    /\ GuiFrame

\* line 537; an unreadable container raises and the row is given up (547)
GuiNqfCopy(t) ==
    LET r == rows[threads[t].k] IN
    /\ threads[t].pc = "nqf_copy"
    /\ IF r.readable
       THEN /\ fs' = [fs EXCEPT ![DstNqf(r)] = [src |-> r.idx, size |-> r.len]]
            /\ threads' = At(t, "extract")
       ELSE /\ fs' = fs
            /\ threads' = NextRow(t)
    /\ GuiFrame

\* lines 538-540: extract_eset_file writes the .out file; a row without a name
\* is finished
GuiExtract(t) ==
    LET r == rows[threads[t].k] IN
    /\ threads[t].pc = "extract"
    /\ IF r.readable
       THEN /\ fs' = [fs EXCEPT ![OutPath(r)] = [src |-> r.idx, size |-> r.len]]
            /\ threads' = IF r.ocr_name # "" THEN At(t, "check") ELSE NextRow(t)
       ELSE /\ fs' = fs
            /\ threads' = NextRow(t)
    /\ GuiFrame

\* lines 541-542 and 545-546: guess_path.exists()
GuiCheck(t) ==
    /\ threads[t].pc = "check"
    /\ threads' = IF fs[GuessPath(rows[threads[t].k])] = NoFile
                  THEN At(t, "copy") ELSE NextRow(t)
    /\ UNCHANGED fs
    /\ GuiFrame

\* lines 543-544: shutil.copy2(out_path, guess_path)
GuiCopy(t) ==
    LET r == rows[threads[t].k] IN
    /\ threads[t].pc = "copy"
    /\ fs' = Copy2(fs, OutPath(r), GuessPath(r))
    /\ threads' = NextRow(t)
    /\ GuiFrame

NextGui ==
    \/ start_extract_thread
    \/ \E t \in 1..Len(threads) : GuiNqfCheck(t)
    \/ \E t \in 1..Len(threads) : GuiNqfCopy(t)
    \/ \E t \in 1..Len(threads) : GuiExtract(t)
    \/ \E t \in 1..Len(threads) : GuiCheck(t)
    \/ \E t \in 1..Len(threads) : GuiCopy(t)

SpecGui == InitGui /\ [][NextGui]_vars

-----------------------------------------------------------------------------
(* propose_names over richer candidate lists *)

MatchLens == {1010, 2000}
MatchSizes == {1000, 1020, 2000}

InitMatch ==
    /\ Start
    /\ nqfs \in {s \in Scans(MatchLens) :
                    s # <<>> /\ \A k \in 1..Len(s) : s[k].readable}
    /\ ocr \in CandLists(Names, MatchSizes, MaxCands)
    /\ fs = [p \in Paths |-> NoFile]

NextMatch ==
    \/ DecryptOne
    \/ OcrStage
    \/ ProposeStage

SpecMatch == InitMatch /\ [][NextMatch]_vars

-----------------------------------------------------------------------------
(* decrypt_eset_bytes *)

KeySub == 84
KeyXor == 165
ByteMask == 255

RECURSIVE BitXor(_, _)
\* a ^ b on non-negative integers
BitXor(a, b) ==
    IF a = 0 /\ b = 0 THEN 0
    ELSE (((a % 2) + (b % 2)) % 2) + 2 * BitXor(a \div 2, b \div 2)

\* x & 0xFF on a Python int, negative ones included: the low eight bits of
\* the two's complement
AndMask(x) == x % (ByteMask + 1)

\* a subtraction that stops at zero instead of wrapping
decrypt_byte_sat(b) == BitXor(IF b < KeySub THEN 0 ELSE b - KeySub, KeyXor)

\* line 49: ((b - 84) & 0xFF) ^ 0xA5
decrypt_byte(b) == BitXor(AndMask(b - KeySub), KeyXor)

\* bytes(range(256))
Identity == [k \in 1..(ByteMask + 1) |-> k - 1]

DecInputs == {Identity, <<>>, <<0, 83, 84, 255>>, <<7, 7>>}

InitDec ==
    /\ pc = "dec"
    /\ NoTol
    /\ data \in DecInputs
    /\ dec = <<>>
    /\ rows = <<>> /\ threads = <<>>
    /\ frags = <<>> /\ gathered = <<>> /\ uniq = <<>>
    /\ nqfs = <<>>
    /\ ocr = <<>>
    /\ items = <<>>
    /\ cand_list = <<>>
    /\ proposals = <<>>
    /\ fs = [p \in Paths |-> NoFile]
    /\ i = 1
    /\ choice = ""
    /\ idx = 0
    /\ inp = <<>>
    /\ msg = ""
    /\ made = 0
    /\ run = 1
    /\ fs1 = [p \in Paths |-> NoFile]

DecFrame ==
    /\ UNCHANGED <<sz, target, tolres, nqfs, ocr, items, cand_list, proposals,
                   fs, choice, idx, inp, msg, made, run, fs1>>
    /\ UNCHANGED <<rows, threads, data, frags, gathered, uniq>>

\* lines 48-49: one round of the loop; dec is the part of out filled so far
DecByte ==
    /\ pc = "dec"
    /\ i <= Len(data)
    /\ dec' = Append(dec, decrypt_byte(data[i]))
    /\ i' = i + 1
    /\ UNCHANGED pc
    /\ DecFrame

\* line 50
DecReturn ==
    /\ pc = "dec"
    /\ i > Len(data)
    /\ pc' = "dec_done"
    /\ UNCHANGED <<i, dec>>
    /\ DecFrame

NextDec ==
    \/ DecByte
    \/ DecReturn

SpecDec == InitDec /\ [][NextDec]_vars

-----------------------------------------------------------------------------
(* ocr_candidates *)

MaxPairs == 2

\* the images of the screenshots folder, in sorted order
Images == <<"1.png", "2.png">>

\* the (name, size) pairs the loop of lines 139-151 can find in an image
OcrPairs == {<<"a.exe", 1000>>, <<"A.EXE", 1000>>, <<"b.zip", 1000>>,
             <<"a.exe", 2000>>}

\* what an image gives: its pairs in line order, or an exception from
\* ocr_text_from_image
ImageTexts ==
    {[ok |-> TRUE, pairs |-> q] : q \in UNION {[1..n -> OcrPairs] : n \in 0..MaxPairs}}
    \cup {[ok |-> FALSE, pairs |-> <<>>]}

\* the key of the dedup loop without the lower-casing
OcrKeyExact(c) == <<c[1], c[2]>>

\* line 156: key = (nm.lower(), sz)
OcrKey(c) == <<Lower(c[1]), c[2]>>

RECURSIVE DedupLoop(_, _, _)
\* lines 153-160
DedupLoop(cands, seen, out) ==
    IF cands = <<>> THEN out
    ELSE IF OcrKey(Head(cands)) \in seen
         THEN DedupLoop(Tail(cands), seen, out)
         ELSE DedupLoop(Tail(cands), seen \cup {OcrKey(Head(cands))},
                        Append(out, Head(cands)))

InitOcr ==
    /\ pc = "ocr_scan"
    /\ NoTol
    /\ frags \in [1..Len(Images) -> ImageTexts]
    /\ gathered = <<>>
    /\ uniq = <<>>
    /\ rows = <<>> /\ threads = <<>>
    /\ data = <<>> /\ dec = <<>>
    /\ nqfs = <<>>
    /\ ocr = <<>>
    /\ items = <<>>
    /\ cand_list = <<>>
    /\ proposals = <<>>
    /\ fs = [p \in Paths |-> NoFile]
    /\ i = 1
    /\ choice = ""
    /\ idx = 0
    /\ inp = <<>>
    /\ msg = ""
    /\ made = 0
    /\ run = 1
    /\ fs1 = [p \in Paths |-> NoFile]

OcrFrame ==
    /\ UNCHANGED <<sz, target, tolres, nqfs, ocr, items, cand_list, proposals,
                   fs, choice, idx, inp, msg, made, run, fs1>>
    /\ UNCHANGED <<rows, threads, data, dec, frags>>

\* lines 134-151 for one image that could be read
OcrImage ==
    /\ pc = "ocr_scan"
    /\ i <= Len(frags)
    /\ frags[i].ok
    /\ gathered' = gathered \o frags[i].pairs
    /\ i' = i + 1
    /\ UNCHANGED <<pc, uniq>>
    /\ OcrFrame

\* lines 135-138: the exception is swallowed and the image left out
OcrImageFails ==
    /\ pc = "ocr_scan"
    /\ i <= Len(frags)
    /\ ~frags[i].ok
    /\ i' = i + 1
    /\ UNCHANGED <<pc, gathered, uniq>>
    /\ OcrFrame

\* lines 152-161
OcrDedup ==
    /\ pc = "ocr_scan"
    /\ i > Len(frags)
    /\ uniq' = DedupLoop(gathered, {}, <<>>)
    /\ pc' = "ocr_done"
    /\ UNCHANGED <<i, gathered>>
    /\ OcrFrame

NextOcr ==
    \/ OcrImage
    \/ OcrImageFails
    \/ OcrDedup

SpecOcr == InitOcr /\ [][NextOcr]_vars

-----------------------------------------------------------------------------
(* Properties *)

\* the size match as the specification words it: the band is chosen on the
\* artifact size S
BandOnArtifact(S, T) ==
    IF S >= MiB THEN 100 * Abs(S - T) <= 2 * T ELSE 100 * Abs(S - T) <= 3 * T

\* C1: for every artifact size S and candidate size T > 0 the size match
\* accepts the pair iff |S-T|/T <= 0.02 when S >= 1 MiB and iff
\* |S-T|/T <= 0.03 when S < 1 MiB, the band being chosen on S.
C1_BandChosenOnArtifactSize ==
    (pc = "tol_done" /\ target > 0) =>
        ((tolres = "match") <=> BandOnArtifact(sz, target))

\* the positions of the candidates whose size is within tolerance of the item
Within(it, cands) == {k \in 1..Len(cands) : within_tol(it.out_size, cands[k][2])}

\* the distinct names of those candidates
WithinNames(it, cands) == {cands[k][1] : k \in Within(it, cands)}

\* C2: propose_names classifies each artifact by the number of distinct
\* candidate names within tolerance: none gives "(missing)" flagged missing,
\* exactly one gives that name with no flag (also when the name matches at
\* several sizes), two or more give the duplicate flag.
C2_ClassifiedByDistinctNames ==
    pc = "prompt" =>
        \A j \in 1..Len(items) :
            LET D == WithinNames(items[j], cand_list)
                p == proposals[items[j].idx]
            IN /\ D = {} => p = Missing
               /\ Cardinality(D) = 1 => (p.name \in D /\ p.label = "")
               /\ Cardinality(D) >= 2 => p.label = DUPLICATE

\* one name within tolerance at two candidate sizes, and no other name
C2_Witness ==
    /\ pc = "prompt"
    /\ \E j \in 1..Len(items) :
         /\ Cardinality(WithinNames(items[j], cand_list)) = 1
         /\ Cardinality({cand_list[k][2] : k \in Within(items[j], cand_list)}) = 2
         /\ proposals[items[j].idx].label = ""

\* C3: with two or more distinct names within tolerance, the proposed name is
\* the name of the earliest candidate of the list that is within tolerance.
C3_FirstInListOrder ==
    pc = "prompt" =>
        \A j \in 1..Len(items) :
            LET W == Within(items[j], cand_list)
            IN Cardinality(WithinNames(items[j], cand_list)) >= 2 =>
                 proposals[items[j].idx].name =
                    cand_list[CHOOSE k \in W : \A m \in W : k <= m][1]

\* two names within tolerance; after the earliest match comes a match of
\* smaller size and another name, and after that one a match of the size of
\* the earliest, which the grouping by size moves ahead
C3_Witness ==
    /\ pc = "prompt"
    /\ \E j \in 1..Len(items) :
         LET W == Within(items[j], cand_list)
         IN /\ W # {}
            /\ LET f == CHOOSE k \in W : \A m \in W : k <= m
               IN /\ \E m, n \in W : /\ m < n
                                     /\ cand_list[m][2] < cand_list[f][2]
                                     /\ cand_list[m][1] # cand_list[f][1]
                                     /\ cand_list[n][2] = cand_list[f][2]
                  /\ proposals[items[j].idx] =
                        [name |-> cand_list[f][1], label |-> DUPLICATE]

ItemIdxs == {items[k].idx : k \in 1..Len(items)}

\* C4: from the return of propose_names on, through every command, the
\* proposals hold exactly one proposal for each artifact index and none for
\* any other index.
C4_OneProposalPerArtifact ==
    pc \in {"prompt", "ask_index", "ask_name", "copy", "done", "cancelled", "crashed"} =>
        /\ DOMAIN proposals = ItemIdxs
        /\ \A k \in ItemIdxs :
             /\ DOMAIN proposals[k] = {"name", "label"}
             /\ proposals[k].label \in {"", DUPLICATE, MISSING}

\* back at the prompt after an edit and an index that is not in the list
C4_Witness ==
    /\ pc = "prompt"
    /\ msg = "[!] Index not in list."
    /\ idx \notin ItemIdxs
    /\ Len(items) = 2
    /\ proposals # propose_names(items, cand_list)

\* a line of white space only
Blank(line) == \A k \in 1..Len(line) : line[k] = " "

\* the word of a line that is not blank
Word(line) == CHOOSE w \in {line[k] : k \in 1..Len(line)} : w # " "

\* C5: an edit with a blank replacement sets the proposal of the index to
\* "(missing)" flagged missing; an edit with a non-blank replacement sets it
\* to the replacement with no flag; the prior flag does not matter.
C5_EditOverridesFlag ==
    [][(pc = "ask_name" /\ pc' = "prompt") =>
          IF Blank(inp')
          THEN proposals'[idx] = [name |-> MISSING, label |-> MISSING]
          ELSE proposals'[idx] = [name |-> Word(inp'), label |-> ""]]_vars

\* an artifact proposed as a possible duplicate was edited to a name
C5_Witness ==
    /\ pc = "prompt"
    /\ inp = <<" ", "b.zip">>
    /\ idx \in ItemIdxs
    /\ propose_names(items, cand_list)[idx] = [name |-> "a.exe", label |-> DUPLICATE]
    /\ proposals[idx] = [name |-> "b.zip", label |-> ""]

\* C6: an edit whose index is no integer or names no artifact leaves the
\* session at the prompt with the proposals unchanged; only an input error
\* is reported.
C6_BadIndexChangesNothing ==
    [][(/\ pc = "ask_index"
        /\ inp' # EOF
        /\ \/ Strip(inp') \notin DOMAIN IntWords
           \/ IntWords[Strip(inp')] \notin ItemIdxs)
       => /\ pc' = "prompt"
          /\ msg' \in {"[!] Invalid index.", "[!] Index not in list."}
          /\ UNCHANGED <<proposals, items, cand_list, fs, made>>]_vars

\* back at the prompt after a line that is no integer, the proposals as edited
C6_Witness ==
    /\ pc = "prompt"
    /\ inp = <<"x">>
    /\ msg = "[!] Invalid index."
    /\ proposals # propose_names(items, cand_list)

\* the named copies the tool has made: files beside the .out files that hold
\* an artifact's payload
NamedCopies(files) == {p \in Paths : p[2] # OUT /\ files[p].src >= 1}

\* C7: no named copy is made unless the session was confirmed: at the prompt,
\* inside an edit and after a cancel the named files do not change and there
\* are zero named copies.
C7_NoCopyUnlessConfirmed ==
    /\ [](pc \in {"copy", "done"} => choice \in ConfirmWords)
    /\ [](pc \notin {"copy", "done"} => (NamedCopies(fs) = {} /\ made = 0))
    /\ [][pc # "copy" => \A p \in Paths : p[2] # OUT => fs'[p] = fs[p]]_vars

\* cancelled with a name proposed for some artifact
C7_Witness ==
    /\ pc = "cancelled"
    /\ choice \in CancelWords
    /\ \E k \in ItemIdxs : proposals[k].name \in Names

\* C8: end of input at the command prompt, the index prompt or the name
\* prompt is an implicit cancel: the session ends cancelled, nothing copied,
\* the proposals unchanged.
C8_EofIsCancel ==
    [][(pc \in {"prompt", "ask_index", "ask_name"} /\ inp' = EOF) =>
          /\ pc' = "cancelled"
          /\ UNCHANGED <<proposals, fs>>]_vars

\* C9: the copy loop copies the .out file of every artifact whose name is not
\* "(missing)" to the name in the artifact's folder exactly when nothing is
\* there, never changes a file that exists, and made counts the copies.
C9_CopyOnlyIfAbsent ==
    /\ [][(pc = "copy" /\ i' = i + 1) =>
            LET it == items[i]
                nm == proposals[it.idx].name
            IN IF nm # MISSING /\ fs[<<it.folder, nm>>] = NoFile
               THEN /\ fs' = [fs EXCEPT ![<<it.folder, nm>>] = fs[it.out_path]]
                    /\ made' = made + 1
               ELSE UNCHANGED <<fs, made>>]_vars
    /\ [][pc = "copy" => \A p \in Paths : fs[p] # NoFile => fs'[p] = fs[p]]_vars
    /\ []((pc \in {"copy", "done"} /\ run = 1) => made = Cardinality(NamedCopies(fs)))
    /\ [](pc = "done" =>
            \A k \in 1..Len(items) :
                proposals[items[k].idx].name # MISSING =>
                    fs[<<items[k].folder, proposals[items[k].idx].name>>] # NoFile)

\* done with one copy made and one target that was there before, untouched
C9_Witness ==
    /\ pc = "done"
    /\ run = 1
    /\ made >= 1
    /\ fs[<<"h1", "a.exe">>] = Old
    /\ \E k \in 1..Len(items) :
         items[k].folder = "h1" /\ proposals[items[k].idx].name = "a.exe"

\* C10: a second run of the copy loop on the same items and proposals leaves
\* the files as the first run left them and makes zero copies.
C10_SecondRunCopiesNothing ==
    (pc = "done" /\ run = 2) => (made = 0 /\ fs = fs1)

\* the second run is over and the first had made copies
C10_Witness ==
    /\ pc = "done"
    /\ run = 2
    /\ Cardinality(NamedCopies(fs1)) >= 2

\* C11: a failure confined to one item never aborts the rest of the batch:
\* a container that cannot be read is skipped, and the decrypt stage goes on
\* to the next container (or to the OCR stage) with the items it has.
C11_UnreadableIsSkipped ==
    [][(pc = "decrypt" /\ i <= Len(nqfs) /\ ~nqfs[i].readable) =>
          /\ pc' \in {"decrypt", "ocr"}
          /\ items' = items]_vars

C13_CheckAndWriteAtomic ==
    \A t \in 1..Len(threads) :
        threads[t].pc = "copy" =>
            fs[GuessPath(rows[threads[t].k])] = NoFile

\* C14: the byte transform is a bijection on 0..255: on the 256 bytes
\* 0, 1, ..., 255 the result has 256 bytes, every value 0..255 occurs in it
\* and none occurs twice; and every byte of every result is within 0..255.
C14_DecryptIsPermutation ==
    /\ \A k \in 1..Len(dec) : dec[k] \in 0..255
    /\ (pc = "dec_done" /\ data = [k \in 1..256 |-> k - 1]) =>
          /\ Len(dec) = 256
          /\ {dec[k] : k \in 1..256} = 0..255
          /\ \A j, k \in 1..256 : dec[j] = dec[k] => j = k

\* the bytes 0..255 have been decrypted: 0 gives 172 ^ 165 = 9, 84 gives 165,
\* 83 wraps to 255 and gives 90
C14_Witness ==
    /\ pc = "dec_done"
    /\ Len(data) = 256
    /\ data[1] = 0 /\ dec[1] = 9
    /\ data[85] = 84 /\ dec[85] = 165
    /\ data[84] = 83 /\ dec[84] = 90

\* the pairs of all images that could be read, in image order
RECURSIVE AllPairs(_)
AllPairs(k) ==
    IF k > Len(frags) THEN <<>>
    ELSE (IF frags[k].ok THEN frags[k].pairs ELSE <<>>) \o AllPairs(k + 1)

\* the positions of a list that hold the first occurrence of their
\* (lower-cased name, size) pair
FirstOcc(l) ==
    {k \in 1..Len(l) :
        \A j \in 1..(k - 1) :
            <<Lower(l[j][1]), l[j][2]>> # <<Lower(l[k][1]), l[k][2]>>}

\* C16: the list returned by the extractor holds no two entries with the
\* same (lower-cased name, size) pair and is the list of the first
\* occurrences of the pairs found in all images, in the order found.
C16_DedupFirstOccurrences ==
    pc = "ocr_done" =>
        LET all == AllPairs(1)
            first == FirstOcc(all)
        IN /\ \A j, k \in 1..Len(uniq) :
                <<Lower(uniq[j][1]), uniq[j][2]>> = <<Lower(uniq[k][1]), uniq[k][2]>>
                    => j = k
           /\ Len(uniq) = Cardinality(first)
           /\ \A k \in first :
                uniq[Cardinality({j \in first : j <= k})] = all[k]

\* two images give the same name in different case with the same size, and
\* the same name with another size; the second spelling is dropped
C16_Witness ==
    /\ pc = "ocr_done"
    /\ frags[1].pairs = << <<"a.exe", 1000>>, <<"b.zip", 1000>> >>
    /\ frags[2].pairs = << <<"A.EXE", 1000>>, <<"a.exe", 2000>> >>
    /\ uniq = << <<"a.exe", 1000>>, <<"b.zip", 1000>>, <<"a.exe", 2000>> >>

\* C15: at the command prompt a line that is none of y, yes, e, edit, c, q,
\* cancel leaves the session at the prompt, with the proposals, the items,
\* the candidates and the files as they were, and nothing copied.
C15_UnknownCommandIsNoOp ==
    [][(/\ pc = "prompt"
        /\ inp' # EOF
        /\ Lower(Strip(inp')) \notin {"y", "yes", "e", "edit", "c", "q", "cancel"})
       => /\ pc' = "prompt"
          /\ UNCHANGED <<proposals, items, cand_list, fs, made>>]_vars

\* the line "confirm", which is no alias, has been read with an artifact
\* under review
C15_Witness ==
    /\ pc = "prompt"
    /\ inp = <<"confirm">>
    /\ choice = "confirm"
    /\ Len(items) >= 1

\* C17: the step that reads a name for artifact idx and applies the edit
\* leaves the proposal of every other artifact, the set of artifacts that
\* have a proposal, the items, the candidates and the files unchanged, and
\* returns to the prompt.
C17_EditChangesOnlyItsProposal ==
    [][(pc = "ask_name" /\ inp' # inp /\ inp' # EOF)
       => /\ pc' = "prompt"
          /\ DOMAIN proposals' = DOMAIN proposals
          /\ \A k \in DOMAIN proposals \ {idx} : proposals'[k] = proposals[k]
          /\ UNCHANGED <<items, cand_list, fs, nqfs, idx>>]_vars

\* artifact 1 of two, both proposed as a.exe, has been renamed to b.zip and
\* the second is still a.exe
C17_Witness ==
    /\ pc = "prompt"
    /\ Len(items) = 2
    /\ idx = 1
    /\ inp = <<" ", "b.zip">>
    /\ proposals[1] = [name |-> "b.zip", label |-> ""]
    /\ proposals[2] = [name |-> "a.exe", label |-> DUPLICATE]

\* C18: a proposal is flagged missing exactly when its name is the sentinel
\* "(missing)", whatever names the edits supplied.
C18_FlagMissingIffSentinel ==
    \A k \in DOMAIN proposals :
        proposals[k].label = MISSING <=> proposals[k].name = MISSING

\* C19: distinct artifacts have distinct output paths, and when the copies
\* are made the file at the output path of each artifact is the payload of
\* that artifact, of the size recorded for it.
C19_OwnOutputPath ==
    /\ \A j, k \in 1..Len(items) :
          j # k => items[j].out_path # items[k].out_path
    /\ pc = "copy" =>
          \A j \in 1..Len(items) :
              fs[items[j].out_path] =
                 [src |-> items[j].idx, size |-> items[j].out_size]

====
